---- MODULE Spec2Model ----
(***************************************************************************)
(* Model of the agent system: the Agent classes (src/src/agents/           *)
(* base_agent.py), the AgentManager registry (src/src/agents/              *)
(* agent_manager.py), the Flask routes in front of it (src/src/server/     *)
(* api.py) and the command line (src/cli.py).  Text is modelled by TLA+    *)
(* strings, so prompts are built by concatenation exactly as the f-strings *)
(* of the source build them.                                               *)
(* A Python Optional is a sequence: <<>> is None and <<v>> is the value v. *)
(***************************************************************************)
EXTENDS Integers, Sequences, FiniteSets, TLC

VARIABLES
    agents,             \* AgentManager.agents: id -> agent instance
    agent_types,        \* AgentManager.agent_types: type name -> class
    next_uid,           \* identity of the next instance constructed
    ANTHROPIC_API_KEY,  \* config.ANTHROPIC_API_KEY
    GITHUB_TOKEN,       \* config.GITHUB_TOKEN
    last,               \* the last call: its arguments, outcome and pre-state
    requests            \* the server's request threads inside execute_agent

vars == <<agents, agent_types, next_uid, ANTHROPIC_API_KEY, GITHUB_TOKEN, last,
          requests>>

-----------------------------------------------------------------------------
(* Bounds of the model *)

\* instances constructed over one run of the process
MaxAgents == 2
\* conversation entries held by all registered agents together
MaxHistory == 4

-----------------------------------------------------------------------------
(* Python values *)

None == <<>>
Some(v) == <<v>>

\* bool(x) of an Optional[str]: None and "" are falsy
TruthyStr(o) == o # None /\ o[1] # ""
\* bool(x) of an Optional[int]: None and 0 are falsy
TruthyInt(o) == o # None /\ o[1] # 0
\* `o or d` for an Optional[str]
OrStr(o, d) == IF TruthyStr(o) THEN o[1] ELSE d

Contains(s, sub) ==
    \E i \in 1..(Len(s) - Len(sub) + 1) : SubSeq(s, i, i + Len(sub) - 1) = sub

\* repr() of a list of plain strings, as an f-string renders it
RECURSIVE JoinRepr(_)
JoinRepr(names) ==
    IF names = <<>> THEN ""
    ELSE "'" \o Head(names) \o "'"
         \o (IF Len(names) > 1 THEN ", " ELSE "") \o JoinRepr(Tail(names))
ListRepr(names) == "[" \o JoinRepr(names) \o "]"

-----------------------------------------------------------------------------
(* The agent classes *)

AgentClasses == {"CodeReviewAgent", "IssueTriageAgent", "DocumentationAgent"}

AgentName(cls) ==
    CASE cls = "CodeReviewAgent" -> "Code Review Agent"
      [] cls = "IssueTriageAgent" -> "Issue Triage Agent"
      [] cls = "DocumentationAgent" -> "Documentation Agent"

AgentDescription(cls) ==
    CASE cls = "CodeReviewAgent" -> "Analyzes code changes and provides detailed reviews"
      [] cls = "IssueTriageAgent" -> "Triages and categorizes GitHub issues"
      [] cls = "DocumentationAgent" -> "Generates and improves documentation"

get_system_prompt(cls) ==
    CASE cls = "CodeReviewAgent" ->
           "You are an expert code reviewer. Your role is to:\n"
           \o "1. Analyze code changes for bugs, security issues, and best practices\n"
           \o "2. Provide constructive feedback with specific suggestions\n"
           \o "3. Consider performance, maintainability, and readability\n"
           \o "4. Be thorough but concise in your reviews\n"
           \o "5. Highlight both positive aspects and areas for improvement"
      [] cls = "IssueTriageAgent" ->
           "You are an expert at triaging GitHub issues. Your role is to:\n"
           \o "1. Categorize issues by type (bug, feature, documentation, etc.)\n"
           \o "2. Assess priority and severity\n"
           \o "3. Suggest appropriate labels\n"
           \o "4. Identify duplicates or related issues\n"
           \o "5. Provide actionable next steps"
      [] cls = "DocumentationAgent" ->
           "You are an expert technical writer. Your role is to:\n"
           \o "1. Create clear, comprehensive documentation\n"
           \o "2. Explain complex concepts in simple terms\n"
           \o "3. Provide code examples where appropriate\n"
           \o "4. Maintain consistent formatting and style\n"
           \o "5. Ensure documentation is up-to-date with code changes"

\* Agent.__init__ building the Repository Client lazily: only the API key
\* is needed at construction
AgentInitError_key_only(ai_model, github_client, api_key, token) ==
    IF ai_model = None /\ api_key = "" THEN "config" ELSE ""

\* Agent.__init__: whether construction succeeds.  A collaborator that is
\* not passed in is built from the process configuration.
AgentInitError(ai_model, github_client, api_key, token) ==
    IF ai_model = None /\ api_key = "" THEN "config"
    ELSE IF github_client = None /\ token = "" THEN "config"
    ELSE ""

NewAgent(uid, cls) ==
    [uid |-> uid, cls |-> cls, conversation_history |-> <<>>]

add_to_conversation(history, role, content) ==
    Append(history, [role |-> role, content |-> content])

\* One call of the Model Adapter, as the agent makes it
GenerateCall(prompt, system_prompt) ==
    [fn |-> "generate", prompt |-> prompt, system_prompt |-> system_prompt,
     messages |-> <<>>]
ChatCall(messages) ==
    [fn |-> "chat", prompt |-> "", system_prompt |-> "", messages |-> messages]

\* generate_response recording the user entry before the model is called
generate_response_user_first(cls, history, prompt, use_history, reply) ==
    LET call == IF use_history /\ history # <<>>
                THEN ChatCall(Append(history, [role |-> "user", content |-> prompt]))
                ELSE GenerateCall(prompt, get_system_prompt(cls))
        asked == add_to_conversation(history, "user", prompt)
    IN  IF reply = None
        THEN [err |-> "model", response |-> "", history |-> asked,
              model_calls |-> <<call>>]
        ELSE [err |-> "", response |-> reply[1],
              history |-> add_to_conversation(asked, "assistant", reply[1]),
              model_calls |-> <<call>>]

\* generate_response sending chat the new prompt without the history
generate_response_prompt_only(cls, history, prompt, use_history, reply) ==
    LET call == IF use_history /\ history # <<>>
                THEN ChatCall(<<[role |-> "user", content |-> prompt]>>)
                ELSE GenerateCall(prompt, get_system_prompt(cls))
    IN  IF reply = None
        THEN [err |-> "model", response |-> "", history |-> history,
              model_calls |-> <<call>>]
        ELSE [err |-> "", response |-> reply[1],
              history |-> add_to_conversation(
                              add_to_conversation(history, "user", prompt),
                              "assistant", reply[1]),
              model_calls |-> <<call>>]

\* generate_response replaying the history whenever there is one, whatever
\* use_history says
generate_response_ignores_flag(cls, history, prompt, use_history, reply) ==
    LET call == IF history # <<>>
                THEN ChatCall(Append(history, [role |-> "user", content |-> prompt]))
                ELSE GenerateCall(prompt, get_system_prompt(cls))
    IN  IF reply = None
        THEN [err |-> "model", response |-> "", history |-> history,
              model_calls |-> <<call>>]
        ELSE [err |-> "", response |-> reply[1],
              history |-> add_to_conversation(
                              add_to_conversation(history, "user", prompt),
                              "assistant", reply[1]),
              model_calls |-> <<call>>]

\* Agent.generate_response.  reply is the Model Adapter's outcome: None when
\* the call raises, Some(text) when it returns text.
generate_response(cls, history, prompt, use_history, reply) ==
    LET call == IF use_history /\ history # <<>>
                THEN ChatCall(Append(history, [role |-> "user", content |-> prompt]))
                ELSE GenerateCall(prompt, get_system_prompt(cls))
    IN  IF reply = None
        THEN [err |-> "model", response |-> "", history |-> history,
              model_calls |-> <<call>>]
        ELSE [err |-> "", response |-> reply[1],
              history |-> add_to_conversation(
                              add_to_conversation(history, "user", prompt),
                              "assistant", reply[1]),
              model_calls |-> <<call>>]

-----------------------------------------------------------------------------
(* Agent.execute of the three variants.  context is an AgentContext (its   *)
(* metadata and timestamp are read by no agent and are left out); gh is    *)
(* what the hosting platform answers: whether the repository is found and  *)
(* the pull request / issue found under the number, None when the lookup   *)
(* raises.                                                                 *)

\* One call of the Repository Client (number is 0 for get_repository)
GithubCall(fn, repo, number) == [fn |-> fn, repo |-> repo, number |-> number]

\* a failed lookup noted in the conversation before it is raised
GithubFailure_logged(history, calls) ==
    [err |-> "github", response |-> "",
     history |-> add_to_conversation(history, "system", "lookup failed"),
     model_calls |-> <<>>, github_calls |-> calls]

GithubFailure(history, calls) ==
    [err |-> "github", response |-> "", history |-> history,
     model_calls |-> <<>>, github_calls |-> calls]

WithGithubCalls(r, calls) ==
    [err |-> r.err, response |-> r.response, history |-> r.history,
     model_calls |-> r.model_calls, github_calls |-> calls]

\* the review prompt rendering pr.body as it is, without the substitute text
CodeReviewPrompt_raw_body(pr, user_input) ==
    "Please review the following pull request:\n\n"
    \o "Title: " \o pr.title \o "\n"
    \o "Description: " \o (IF pr.body = None THEN "None" ELSE pr.body[1]) \o "\n\n"
    \o "Files changed: " \o ToString(pr.changed_files) \o "\n"
    \o "Additions: +" \o ToString(pr.additions) \o "\n"
    \o "Deletions: -" \o ToString(pr.deletions) \o "\n\n"
    \o "Additional context: " \o user_input \o "\n\n"
    \o "Provide a comprehensive code review."

CodeReviewPrompt(pr, user_input) ==
    "Please review the following pull request:\n\n"
    \o "Title: " \o pr.title \o "\n"
    \o "Description: " \o OrStr(pr.body, "No description provided") \o "\n\n"
    \o "Files changed: " \o ToString(pr.changed_files) \o "\n"
    \o "Additions: +" \o ToString(pr.additions) \o "\n"
    \o "Deletions: -" \o ToString(pr.deletions) \o "\n\n"
    \o "Additional context: " \o user_input \o "\n\n"
    \o "Provide a comprehensive code review."

CodeReviewAgent_execute(history, context, user_input, gh, reply) ==
    IF TruthyInt(context.pr_number) /\ TruthyStr(context.repository)
    THEN LET c1 == <<GithubCall("get_repository", context.repository[1], 0)>>
             c2 == Append(c1, GithubCall("get_pull", context.repository[1],
                                         context.pr_number[1]))
         IN  IF ~gh.repo_found THEN GithubFailure(history, c1)
             ELSE IF gh.pull = None THEN GithubFailure(history, c2)
             ELSE WithGithubCalls(
                      generate_response("CodeReviewAgent", history,
                          CodeReviewPrompt(gh.pull[1], user_input), FALSE, reply),
                      c2)
    ELSE WithGithubCalls(
             generate_response("CodeReviewAgent", history,
                 "Review this code:\n\n" \o user_input, FALSE, reply),
             <<>>)

IssueTriagePrompt(issue) ==
    "Please triage the following GitHub issue:\n\n"
    \o "Title: " \o issue.title \o "\n"
    \o "Body: " \o OrStr(issue.body, "No description provided") \o "\n"
    \o "Labels: " \o ListRepr(issue.labels) \o "\n"
    \o "State: " \o issue.state \o "\n\n"
    \o "Provide triage analysis including category, priority, suggested labels, and next steps."

\* IssueTriageAgent.execute testing pr_number where it should test
\* issue_number, as CodeReviewAgent.execute does
IssueTriageAgent_execute_pr_number(history, context, user_input, gh, reply) ==
    IF TruthyInt(context.pr_number) /\ TruthyStr(context.repository)
    THEN LET c1 == <<GithubCall("get_repository", context.repository[1], 0)>>
             c2 == Append(c1, GithubCall("get_issue", context.repository[1],
                                         context.pr_number[1]))
         IN  IF ~gh.repo_found THEN GithubFailure(history, c1)
             ELSE IF gh.issue = None THEN GithubFailure(history, c2)
             ELSE WithGithubCalls(
                      generate_response("IssueTriageAgent", history,
                          IssueTriagePrompt(gh.issue[1]), FALSE, reply),
                      c2)
    ELSE WithGithubCalls(
             generate_response("IssueTriageAgent", history,
                 "Triage this issue:\n\n" \o user_input, FALSE, reply),
             <<>>)

IssueTriageAgent_execute(history, context, user_input, gh, reply) ==
    IF TruthyInt(context.issue_number) /\ TruthyStr(context.repository)
    THEN LET c1 == <<GithubCall("get_repository", context.repository[1], 0)>>
             c2 == Append(c1, GithubCall("get_issue", context.repository[1],
                                         context.issue_number[1]))
         IN  IF ~gh.repo_found THEN GithubFailure(history, c1)
             ELSE IF gh.issue = None THEN GithubFailure(history, c2)
             ELSE WithGithubCalls(
                      generate_response("IssueTriageAgent", history,
                          IssueTriagePrompt(gh.issue[1]), FALSE, reply),
                      c2)
    ELSE WithGithubCalls(
             generate_response("IssueTriageAgent", history,
                 "Triage this issue:\n\n" \o user_input, FALSE, reply),
             <<>>)

DocumentationAgent_execute(history, context, user_input, gh, reply) ==
    WithGithubCalls(
        generate_response("DocumentationAgent", history,
            "Generate documentation for:\n\n" \o user_input, FALSE, reply),
        <<>>)

\* agent.execute(context, user_input): dispatch on the instance's class
Agent_execute(agent, context, user_input, gh, reply) ==
    CASE agent.cls = "CodeReviewAgent" ->
           CodeReviewAgent_execute(agent.conversation_history, context, user_input, gh, reply)
      [] agent.cls = "IssueTriageAgent" ->
           IssueTriageAgent_execute(agent.conversation_history, context, user_input, gh, reply)
      [] agent.cls = "DocumentationAgent" ->
           DocumentationAgent_execute(agent.conversation_history, context, user_input, gh, reply)

-----------------------------------------------------------------------------
(* AgentManager: each operation as the result it computes from the current *)
(* registry.  err is "" when the call returns and the error kind when it   *)
(* raises.                                                                 *)

BuiltinTypes ==
    [t \in {"code_review", "issue_triage", "documentation"} |->
        CASE t = "code_review" -> "CodeReviewAgent"
          [] t = "issue_triage" -> "IssueTriageAgent"
          [] t = "documentation" -> "DocumentationAgent"]

\* d[k] = v of a Python dict
DictSet(d, k, v) == [x \in DOMAIN d \cup {k} |-> IF x = k THEN v ELSE d[x]]
\* del d[k]
DictDel(d, k) == [x \in DOMAIN d \ {k} |-> d[x]]

\* create_agent storing with setdefault: an id already registered keeps its agent
create_agent_setdefault(agent_type, agent_id, ai_model, github_client) ==
    IF agent_type \notin DOMAIN agent_types
    THEN [err |-> "unknown_type", agents |-> agents, next_uid |-> next_uid,
          key |-> "", ret_uid |-> 0]
    ELSE LET key == OrStr(agent_id, agent_type)
             agent_class == agent_types[agent_type]
             init == AgentInitError(ai_model, github_client,
                                    ANTHROPIC_API_KEY, GITHUB_TOKEN)
         IN  IF init # ""
             THEN [err |-> init, agents |-> agents, next_uid |-> next_uid,
                   key |-> key, ret_uid |-> 0]
             ELSE [err |-> "",
                   agents |-> IF key \in DOMAIN agents THEN agents
                              ELSE DictSet(agents, key, NewAgent(next_uid, agent_class)),
                   next_uid |-> next_uid + 1, key |-> key, ret_uid |-> next_uid]

\* create_agent releasing the requested id before it looks the type up
create_agent_pop_first(agent_type, agent_id, ai_model, github_client) ==
    LET freed == IF TruthyStr(agent_id) THEN DictDel(agents, agent_id[1]) ELSE agents
    IN  IF agent_type \notin DOMAIN agent_types
        THEN [err |-> "unknown_type", agents |-> freed, next_uid |-> next_uid,
              key |-> "", ret_uid |-> 0]
        ELSE LET key == OrStr(agent_id, agent_type)
                 agent_class == agent_types[agent_type]
                 init == AgentInitError(ai_model, github_client,
                                        ANTHROPIC_API_KEY, GITHUB_TOKEN)
             IN  IF init # ""
                 THEN [err |-> init, agents |-> agents, next_uid |-> next_uid,
                       key |-> key, ret_uid |-> 0]
                 ELSE [err |-> "",
                       agents |-> DictSet(agents, key, NewAgent(next_uid, agent_class)),
                       next_uid |-> next_uid + 1, key |-> key, ret_uid |-> next_uid]

create_agent(agent_type, agent_id, ai_model, github_client) ==
    IF agent_type \notin DOMAIN agent_types
    THEN [err |-> "unknown_type", agents |-> agents, next_uid |-> next_uid,
          key |-> "", ret_uid |-> 0]
    ELSE LET key == OrStr(agent_id, agent_type)
             agent_class == agent_types[agent_type]
             init == AgentInitError(ai_model, github_client,
                                    ANTHROPIC_API_KEY, GITHUB_TOKEN)
         IN  IF init # ""
             THEN [err |-> init, agents |-> agents, next_uid |-> next_uid,
                   key |-> key, ret_uid |-> 0]
             ELSE [err |-> "",
                   agents |-> DictSet(agents, key, NewAgent(next_uid, agent_class)),
                   next_uid |-> next_uid + 1, key |-> key, ret_uid |-> next_uid]

\* the uid of the agent stored under agent_id, 0 for Python's None
get_agent(agent_id) ==
    IF agent_id \in DOMAIN agents THEN agents[agent_id].uid ELSE 0

\* the entry list_agents renders for the agent stored under k
AgentEntry(reg, k) ==
    [id |-> k, name |-> AgentName(reg[k].cls),
     description |-> AgentDescription(reg[k].cls)]

\* the list comprehension over self.agents.items(); the order in which the
\* dict yields its keys is not modelled
RECURSIVE ListOver(_, _)
ListOver(reg, keys) ==
    IF keys = {} THEN <<>>
    ELSE LET k == CHOOSE x \in keys : TRUE
         IN  <<AgentEntry(reg, k)>> \o ListOver(reg, keys \ {k})

\* list_agents rendering one entry per agent class in use
list_agents_per_class ==
    ListOver(agents, {k \in DOMAIN agents :
                         k = CHOOSE x \in DOMAIN agents : agents[x].cls = agents[k].cls})

list_agents == ListOver(agents, DOMAIN agents)

\* remove_agent answering True whether or not an entry existed
remove_agent_always_true(agent_id) ==
    IF agent_id \in DOMAIN agents
    THEN [agents |-> DictDel(agents, agent_id), ret |-> TRUE]
    ELSE [agents |-> agents, ret |-> TRUE]

\* remove_agent emptying the registry (self.agents.clear())
remove_agent_clear_all(agent_id) ==
    IF agent_id \in DOMAIN agents
    THEN [agents |-> <<>>, ret |-> TRUE]
    ELSE [agents |-> agents, ret |-> FALSE]

remove_agent(agent_id) ==
    IF agent_id \in DOMAIN agents
    THEN [agents |-> DictDel(agents, agent_id), ret |-> TRUE]
    ELSE [agents |-> agents, ret |-> FALSE]

\* execute_agent indexing the registry without the not-found check
execute_agent_key_error(agent_id, context, user_input, gh, reply) ==
    IF get_agent(agent_id) = 0
    THEN [err |-> "key_error", response |-> "", agents |-> agents,
          model_calls |-> <<>>, github_calls |-> <<>>]
    ELSE LET r == Agent_execute(agents[agent_id], context, user_input, gh, reply)
         IN  [err |-> r.err, response |-> r.response,
              agents |-> [agents EXCEPT ![agent_id].conversation_history = r.history],
              model_calls |-> r.model_calls, github_calls |-> r.github_calls]

execute_agent(agent_id, context, user_input, gh, reply) ==
    IF get_agent(agent_id) = 0
    THEN [err |-> "not_found", response |-> "", agents |-> agents,
          model_calls |-> <<>>, github_calls |-> <<>>]
    ELSE LET r == Agent_execute(agents[agent_id], context, user_input, gh, reply)
         IN  [err |-> r.err, response |-> r.response,
              agents |-> [agents EXCEPT ![agent_id].conversation_history = r.history],
              model_calls |-> r.model_calls, github_calls |-> r.github_calls]

\* register_agent_type keeping the constructor a name already has
\* (self.agent_types.setdefault)
register_agent_type_setdefault(type_name, agent_class) ==
    IF type_name \in DOMAIN agent_types THEN agent_types
    ELSE DictSet(agent_types, type_name, agent_class)

register_agent_type(type_name, agent_class) ==
    DictSet(agent_types, type_name, agent_class)

get_available_agent_types == DOMAIN agent_types

\* clear_conversation on a history list that all agents share
clear_conversation_shared(agent_id) ==
    [k \in DOMAIN agents |-> [agents[k] EXCEPT !.conversation_history = <<>>]]

\* clear_conversation keeping the opening message of the conversation
clear_conversation_keep_first(agent_id) ==
    [agents EXCEPT ![agent_id].conversation_history =
        IF @ = <<>> THEN <<>> ELSE <<@[1]>>]

\* agent.clear_conversation() on the agent stored under agent_id
clear_conversation(agent_id) ==
    [agents EXCEPT ![agent_id].conversation_history = <<>>]

-----------------------------------------------------------------------------
(* The inputs the calls are drawn from *)

TypeArgs == {"code_review", "issue_triage", "documentation", "custom"}
IdArgs == {None, Some(""), Some("a1")}
LookupIds == TypeArgs \cup {"a1"}
Overrides == {None, Some("mock")}
RegisterNames == {"custom"}
RegisterClasses == {"DocumentationAgent", "IssueTriageAgent"}

Context(repository, issue_number, pr_number) ==
    [repository |-> repository, issue_number |-> issue_number,
     pr_number |-> pr_number]
Contexts ==
    {Context(r, i, p) : r \in {None, Some("o/r")}, i \in {None, Some(5)},
                        p \in {None, Some(7)}}
    \cup {Context(Some(""), Some(5), Some(7)), Context(Some("o/r"), Some(0), Some(0))}
NoContext == Context(None, None, None)
\* the request bodies of POST /agents/<agent_id>/execute
HttpContexts == {NoContext, Context(Some("o/r"), Some(5), Some(7))}
Inputs == {"x = 1"}
Replies == {None, Some("LGTM")}

PullRequest(body) ==
    [title |-> "Fix bug", body |-> body, changed_files |-> 3, additions |-> 10,
     deletions |-> 2]
Issue(body, labels) ==
    [title |-> "Crash on start", body |-> body, labels |-> labels, state |-> "open"]
Github(repo_found, pull, issue) ==
    [repo_found |-> repo_found, pull |-> pull, issue |-> issue]
NoAnswer == Github(FALSE, None, None)
GithubAnswers ==
    {Github(FALSE, None, None), Github(TRUE, None, None),
     Github(TRUE, Some(PullRequest(None)), Some(Issue(None, <<>>))),
     Github(TRUE, Some(PullRequest(Some(""))), Some(Issue(Some(""), <<"bug">>))),
     Github(TRUE, Some(PullRequest(Some("Adds a null check"))),
                  Some(Issue(Some("Stack trace attached"), <<"bug", "ui">>)))}

-----------------------------------------------------------------------------
(* The record of the last call *)

Blank ==
    [via |-> "", op |-> "", agent_type |-> None, agent_id |-> None,
     ai_model |-> None, github_client |-> None, agent_class |-> "",
     context |-> NoContext, user_input |-> "", gh |-> NoAnswer,
     reply |-> None, use_history |-> FALSE,
     err |-> "", key |-> "", ret_uid |-> 0, ret_bool |-> FALSE, response |-> "",
     listing |-> <<>>, types |-> {}, model_calls |-> <<>>, github_calls |-> <<>>,
     status |-> 0, payload |-> "",
     pre_agents |-> agents, pre_types |-> agent_types]

RECURSIVE SumLen(_, _)
SumLen(reg, keys) ==
    IF keys = {} THEN 0
    ELSE LET k == CHOOSE x \in keys : TRUE
         IN  Len(reg[k].conversation_history) + SumLen(reg, keys \ {k})
\* conversation entries held by the registered agents
TotalHistory(reg) == SumLen(reg, DOMAIN reg)

\* the request threads of the server (Flask's app.run serves each request
\* in a thread of its own)
Threads == {"t1", "t2"}
\* a thread that serves no request
NoRequest ==
    [pc |-> "idle", agent_id |-> "", uid |-> 0, user_input |-> "",
     prompt |-> "", response |-> "", status |-> 0]

InitWith(api_keys, tokens) ==
    /\ agents = <<>>
    /\ agent_types = BuiltinTypes
    /\ next_uid = 1
    /\ ANTHROPIC_API_KEY \in api_keys
    /\ GITHUB_TOKEN \in tokens
    /\ last = Blank
    /\ requests = [t \in Threads |-> NoRequest]

\* The process starts under any configuration of the environment
Init == InitWith({"", "sk-key"}, {"", "ghp-token"})
\* The environment sets ANTHROPIC_API_KEY and GITHUB_TOKEN
InitConfigured == InitWith({"sk-key"}, {"ghp-token"})

\* The environment answers only what it is asked: the hosting platform
\* answers when execute looks something up, the model when it is called.
AnswersFor(agent_id, context, user_input) ==
    IF execute_agent(agent_id, context, user_input, NoAnswer, None).github_calls = <<>>
    THEN {NoAnswer} ELSE GithubAnswers
RepliesFor(agent_id, context, user_input, gh) ==
    IF execute_agent(agent_id, context, user_input, gh, None).model_calls = <<>>
    THEN {None} ELSE Replies

\* No call is in progress: the caller has taken the result of the last one.
Idle == last.op = ""

Config == UNCHANGED <<ANTHROPIC_API_KEY, GITHUB_TOKEN>>

-----------------------------------------------------------------------------
(* Calls of the AgentManager made directly (the CLI, the examples) *)

CallCreateAgent(agent_type, agent_id, ai_model, github_client) ==
    LET r == create_agent(agent_type, agent_id, ai_model, github_client)
    IN  /\ Idle
        /\ r.next_uid <= MaxAgents + 1
        /\ agents' = r.agents
        /\ next_uid' = r.next_uid
        /\ last' = [Blank EXCEPT !.via = "api", !.op = "create_agent",
                       !.agent_type = Some(agent_type), !.agent_id = agent_id,
                       !.ai_model = ai_model, !.github_client = github_client,
                       !.err = r.err, !.key = r.key, !.ret_uid = r.ret_uid]
        /\ UNCHANGED agent_types
        /\ Config
        /\ UNCHANGED requests

CallGetAgent(agent_id) ==
    /\ Idle
    /\ last' = [Blank EXCEPT !.via = "api", !.op = "get_agent",
                   !.agent_id = Some(agent_id), !.key = agent_id,
                   !.ret_uid = get_agent(agent_id)]
    /\ UNCHANGED <<agents, agent_types, next_uid>>
    /\ Config
    /\ UNCHANGED requests

CallListAgents ==
    /\ Idle
    /\ last' = [Blank EXCEPT !.via = "api", !.op = "list_agents",
                   !.listing = list_agents]
    /\ UNCHANGED <<agents, agent_types, next_uid>>
    /\ Config
    /\ UNCHANGED requests

CallRemoveAgent(agent_id) ==
    LET r == remove_agent(agent_id)
    IN  /\ Idle
        /\ agents' = r.agents
        /\ last' = [Blank EXCEPT !.via = "api", !.op = "remove_agent",
                       !.agent_id = Some(agent_id), !.key = agent_id,
                       !.ret_bool = r.ret]
        /\ UNCHANGED <<agent_types, next_uid>>
        /\ Config
        /\ UNCHANGED requests

CallExecuteAgent(agent_id, context, user_input) ==
    /\ Idle
    /\ \E gh \in AnswersFor(agent_id, context, user_input) :
       \E reply \in RepliesFor(agent_id, context, user_input, gh) :
        LET r == execute_agent(agent_id, context, user_input, gh, reply)
        IN  /\ TotalHistory(r.agents) <= MaxHistory
            /\ agents' = r.agents
            /\ last' = [Blank EXCEPT !.via = "api", !.op = "execute_agent",
                           !.agent_id = Some(agent_id), !.key = agent_id,
                           !.context = context, !.user_input = user_input,
                           !.gh = gh, !.reply = reply,
                           !.err = r.err, !.response = r.response,
                           !.model_calls = r.model_calls,
                           !.github_calls = r.github_calls]
            /\ UNCHANGED <<agent_types, next_uid>>
            /\ Config
            /\ UNCHANGED requests

CallRegisterAgentType(type_name, agent_class) ==
    /\ Idle
    /\ agent_types' = register_agent_type(type_name, agent_class)
    /\ last' = [Blank EXCEPT !.via = "api", !.op = "register_agent_type",
                   !.agent_type = Some(type_name), !.agent_class = agent_class]
    /\ UNCHANGED <<agents, next_uid>>
    /\ Config
    /\ UNCHANGED requests

CallGetAvailableAgentTypes ==
    /\ Idle
    /\ last' = [Blank EXCEPT !.via = "api", !.op = "get_available_agent_types",
                   !.types = get_available_agent_types]
    /\ UNCHANGED <<agents, agent_types, next_uid>>
    /\ Config
    /\ UNCHANGED requests

\* manager.get_agent(agent_id).clear_conversation()
CallClearConversation(agent_id) ==
    /\ Idle
    /\ agent_id \in DOMAIN agents
    /\ agents' = clear_conversation(agent_id)
    /\ last' = [Blank EXCEPT !.via = "api", !.op = "clear_conversation",
                   !.agent_id = Some(agent_id), !.key = agent_id]
    /\ UNCHANGED <<agent_types, next_uid>>
    /\ Config
    /\ UNCHANGED requests

\* manager.get_agent(agent_id).generate_response(prompt, use_history): the
\* method called on an agent directly
CallGenerateResponse(agent_id, prompt, use_history) ==
    /\ Idle
    /\ agent_id \in DOMAIN agents
    /\ \E reply \in Replies :
        LET agent == agents[agent_id]
            r == generate_response(agent.cls, agent.conversation_history,
                                   prompt, use_history, reply)
            after == [agents EXCEPT ![agent_id].conversation_history = r.history]
        IN  /\ TotalHistory(after) <= MaxHistory
            /\ agents' = after
            /\ last' = [Blank EXCEPT !.via = "api", !.op = "generate_response",
                           !.agent_id = Some(agent_id), !.key = agent_id,
                           !.user_input = prompt, !.use_history = use_history,
                           !.reply = reply, !.err = r.err,
                           !.response = r.response,
                           !.model_calls = r.model_calls]
            /\ UNCHANGED <<agent_types, next_uid>>
            /\ Config
            /\ UNCHANGED requests

-----------------------------------------------------------------------------
(* The Flask routes.  Each handler runs inside try/except Exception, which *)
(* answers 500 with {"error": str(e)}.                                     *)

\* GET /agents
api_list_agents ==
    /\ Idle
    /\ last' = [Blank EXCEPT !.via = "http", !.op = "list_agents",
                   !.listing = list_agents, !.types = get_available_agent_types,
                   !.status = 200, !.payload = "agents"]
    /\ UNCHANGED <<agents, agent_types, next_uid>>
    /\ Config
    /\ UNCHANGED requests

\* POST /agents with body {type, id}
api_create_agent(agent_type, agent_id) ==
    IF ~TruthyStr(agent_type)
    THEN /\ Idle
         /\ last' = [Blank EXCEPT !.via = "http", !.op = "create_agent",
                        !.agent_type = agent_type, !.agent_id = agent_id,
                        !.err = "type_required", !.status = 400,
                        !.payload = "error"]
         /\ UNCHANGED <<agents, agent_types, next_uid>>
         /\ Config
         /\ UNCHANGED requests
    ELSE LET r == create_agent(agent_type[1], agent_id, None, None)
         IN  /\ Idle
             /\ r.next_uid <= MaxAgents + 1
             /\ agents' = r.agents
             /\ next_uid' = r.next_uid
             /\ last' = [Blank EXCEPT !.via = "http", !.op = "create_agent",
                            !.agent_type = agent_type, !.agent_id = agent_id,
                            !.err = r.err, !.key = r.key, !.ret_uid = r.ret_uid,
                            !.status = IF r.err = "" THEN 201 ELSE 500,
                            !.payload = IF r.err = "" THEN "agent" ELSE "error"]
             /\ UNCHANGED agent_types
             /\ Config
             /\ UNCHANGED requests

\* GET /agents/<agent_id>
api_get_agent(agent_id) ==
    LET agent == get_agent(agent_id)
    IN  /\ Idle
        /\ last' = [Blank EXCEPT !.via = "http", !.op = "get_agent",
                       !.agent_id = Some(agent_id), !.key = agent_id,
                       !.ret_uid = agent,
                       !.err = IF agent = 0 THEN "not_found" ELSE "",
                       !.status = IF agent = 0 THEN 404 ELSE 200,
                       !.payload = IF agent = 0 THEN "error" ELSE "agent"]
        /\ UNCHANGED <<agents, agent_types, next_uid>>
        /\ Config
        /\ UNCHANGED requests

\* DELETE /agents/<agent_id>
api_delete_agent(agent_id) ==
    LET r == remove_agent(agent_id)
    IN  /\ Idle
        /\ agents' = r.agents
        /\ last' = [Blank EXCEPT !.via = "http", !.op = "remove_agent",
                       !.agent_id = Some(agent_id), !.key = agent_id,
                       !.ret_bool = r.ret,
                       !.err = IF r.ret THEN "" ELSE "not_found",
                       !.status = IF r.ret THEN 200 ELSE 404,
                       !.payload = IF r.ret THEN "message" ELSE "error"]
        /\ UNCHANGED <<agent_types, next_uid>>
        /\ Config
        /\ UNCHANGED requests

\* POST /agents/<agent_id>/execute with body {input, repository, ...}
api_execute_agent(agent_id, context, user_input) ==
    /\ Idle
    /\ \E gh \in AnswersFor(agent_id, context, user_input) :
       \E reply \in RepliesFor(agent_id, context, user_input, gh) :
        LET r == execute_agent(agent_id, context, user_input, gh, reply)
        IN  /\ TotalHistory(r.agents) <= MaxHistory
            /\ agents' = r.agents
            /\ last' = [Blank EXCEPT !.via = "http", !.op = "execute_agent",
                           !.agent_id = Some(agent_id), !.key = agent_id,
                           !.context = context, !.user_input = user_input,
                           !.gh = gh, !.reply = reply,
                           !.err = r.err, !.response = r.response,
                           !.model_calls = r.model_calls,
                           !.github_calls = r.github_calls,
                           !.status = IF r.err = "" THEN 200 ELSE 500,
                           !.payload = IF r.err = "" THEN "response" ELSE "error"]
            /\ UNCHANGED <<agent_types, next_uid>>
            /\ Config
            /\ UNCHANGED requests

\* DELETE /agents/<agent_id>/conversation
api_clear_conversation(agent_id) ==
    LET agent == get_agent(agent_id)
    IN  /\ Idle
        /\ agents' = IF agent = 0 THEN agents ELSE clear_conversation(agent_id)
        /\ last' = [Blank EXCEPT !.via = "http", !.op = "clear_conversation",
                       !.agent_id = Some(agent_id), !.key = agent_id,
                       !.err = IF agent = 0 THEN "not_found" ELSE "",
                       !.status = IF agent = 0 THEN 404 ELSE 200,
                       !.payload = IF agent = 0 THEN "error" ELSE "message"]
        /\ UNCHANGED <<agent_types, next_uid>>
        /\ Config
        /\ UNCHANGED requests



-----------------------------------------------------------------------------

\* The caller takes the result; the next call can be made.
Return ==
    /\ ~Idle
    /\ last' = Blank
    /\ UNCHANGED <<agents, agent_types, next_uid>>
    /\ Config
    /\ UNCHANGED requests

\* The library process (examples/, tests/): direct calls of one AgentManager
\* holding the built-in types, in a process whose environment sets both the
\* API key and the token; execute is called with every context and answer.
Next ==
    \/ \E t \in TypeArgs, i \in IdArgs : CallCreateAgent(t, i, None, None)
    \/ \E i \in LookupIds : CallGetAgent(i)
    \/ CallListAgents
    \/ \E i \in LookupIds : CallRemoveAgent(i)
    \/ \E i \in LookupIds, c \in Contexts, u \in Inputs : CallExecuteAgent(i, c, u)
    \/ CallGetAvailableAgentTypes
    \/ \E i \in LookupIds : CallClearConversation(i)
    \/ Return

Spec == InitConfigured /\ [][Next]_vars

\* The library process under any configuration, with collaborators passed
\* in or built from the configuration and with custom types registered;
\* execute is called with the empty context.
RegistryNext ==
    \/ \E t \in TypeArgs, i \in IdArgs, m \in Overrides, g \in Overrides :
           CallCreateAgent(t, i, m, g)
    \/ \E i \in LookupIds : CallGetAgent(i)
    \/ CallListAgents
    \/ \E i \in LookupIds : CallRemoveAgent(i)
    \/ \E i \in LookupIds, u \in Inputs : CallExecuteAgent(i, NoContext, u)
    \/ \E t \in RegisterNames, c \in RegisterClasses : CallRegisterAgentType(t, c)
    \/ CallGetAvailableAgentTypes
    \/ Return

SpecRegistry == Init /\ [][RegistryNext]_vars

\* A caller that holds agents and talks to them directly, as examples/ do:
\* generate_response with and without history-use, execute with the empty
\* context, clear_conversation.
Prompts == {"hello", "x = 1"}

AgentNext ==
    \/ \E t \in TypeArgs : CallCreateAgent(t, None, None, None)
    \/ \E i \in LookupIds, p \in Prompts, h \in BOOLEAN :
           CallGenerateResponse(i, p, h)
    \/ \E i \in LookupIds, u \in Inputs : CallExecuteAgent(i, NoContext, u)
    \/ \E i \in LookupIds : CallClearConversation(i)
    \/ \E i \in LookupIds : CallRemoveAgent(i)
    \/ Return

SpecAgent == InitConfigured /\ [][AgentNext]_vars

\* The server process (src/src/server/api.py): requests to the routes of one
\* module-level AgentManager, under any configuration.
ServerNext ==
    \/ api_list_agents
    \/ \E t \in {None} \cup {Some(x) : x \in TypeArgs \cup {""}}, i \in IdArgs :
           api_create_agent(t, i)
    \/ \E i \in LookupIds : api_get_agent(i)
    \/ \E i \in LookupIds : api_delete_agent(i)
    \/ \E i \in LookupIds, c \in HttpContexts, u \in Inputs :
           api_execute_agent(i, c, u)
    \/ \E i \in LookupIds : api_clear_conversation(i)
    \/ Return

SpecServer == Init /\ [][ServerNext]_vars

-----------------------------------------------------------------------------
(* POST /agents/<agent_id>/execute served by concurrent threads.  The      *)
(* handler takes no lock; between the steps below another thread can run:  *)
(* the model call blocks on the network, and the two add_to_conversation   *)
(* calls of generate_response are separate statements.                     *)

HttpInputs == {"x = 1", "y = 2"}

InFlight == {t \in Threads : requests[t].pc \notin {"idle", "respond"}}

\* self.conversation_history.append(...) on the instance uid; an instance
\* that left the registry is held by the thread alone
AppendTo(uid, role, content) ==
    [k \in DOMAIN agents |->
        IF agents[k].uid = uid
        THEN [agents[k] EXCEPT !.conversation_history =
                 add_to_conversation(agents[k].conversation_history, role, content)]
        ELSE agents[k]]

\* The handler up to the model call: agent_manager.execute_agent looks the
\* agent up, agent.execute builds the prompt from the request body (which
\* carries no repository here) and generate_response calls the model.
thr_execute_agent(t, agent_id, user_input) ==
    /\ Idle
    /\ requests[t].pc = "idle"
    /\ TotalHistory(agents) + 2 * (Cardinality(InFlight) + 1) <= MaxHistory
    /\ LET r == execute_agent(agent_id, NoContext, user_input, NoAnswer, None)
       IN  requests' = [requests EXCEPT ![t] =
               IF r.model_calls = <<>>
               THEN [NoRequest EXCEPT !.pc = "respond", !.agent_id = agent_id,
                                     !.user_input = user_input, !.status = 500]
               ELSE [NoRequest EXCEPT !.pc = "model", !.agent_id = agent_id,
                                     !.uid = get_agent(agent_id),
                                     !.user_input = user_input,
                                     !.prompt = r.model_calls[1].prompt]]
    /\ UNCHANGED <<agents, agent_types, next_uid, last>>
    /\ Config

\* self.ai_model.generate returns the text or raises
thr_model_returns(t, reply) ==
    /\ Idle
    /\ requests[t].pc = "model"
    /\ requests' = [requests EXCEPT ![t] =
           IF reply = None
           THEN [@ EXCEPT !.pc = "respond", !.status = 500]
           ELSE [@ EXCEPT !.pc = "append_user", !.response = reply[1]]]
    /\ UNCHANGED <<agents, agent_types, next_uid, last>>
    /\ Config

\* self.add_to_conversation("user", prompt)
thr_append_user(t) ==
    /\ Idle
    /\ requests[t].pc = "append_user"
    /\ agents' = AppendTo(requests[t].uid, "user", requests[t].prompt)
    /\ requests' = [requests EXCEPT ![t].pc = "append_assistant"]
    /\ last' = [Blank EXCEPT !.pre_agents = agents']
    /\ UNCHANGED <<agent_types, next_uid>>
    /\ Config

\* self.add_to_conversation("assistant", response), then the handler
\* builds its answer
thr_append_assistant(t) ==
    /\ Idle
    /\ requests[t].pc = "append_assistant"
    /\ agents' = AppendTo(requests[t].uid, "assistant", requests[t].response)
    /\ requests' = [requests EXCEPT ![t].pc = "respond", ![t].status = 200]
    /\ last' = [Blank EXCEPT !.pre_agents = agents']
    /\ UNCHANGED <<agent_types, next_uid>>
    /\ Config

\* the answer is sent and the thread is free again
thr_respond(t) ==
    /\ Idle
    /\ requests[t].pc = "respond"
    /\ requests' = [requests EXCEPT ![t] = NoRequest]
    /\ UNCHANGED <<agents, agent_types, next_uid, last>>
    /\ Config

\* The threaded server: agents are created by POST /agents, and executes of
\* registered agents run in the request threads.
ThreadsNext ==
    \/ \E t \in {Some("code_review"), Some("documentation")}, i \in {None, Some("a1")} :
           api_create_agent(t, i)
    \/ \E t \in Threads, i \in {"code_review", "a1"}, u \in HttpInputs :
           thr_execute_agent(t, i, u)
    \/ \E t \in Threads, r \in Replies : thr_model_returns(t, r)
    \/ \E t \in Threads : thr_append_user(t)
    \/ \E t \in Threads : thr_append_assistant(t)
    \/ \E t \in Threads : thr_respond(t)
    \/ Return

SpecThreads == InitConfigured /\ [][ThreadsNext]_vars

-----------------------------------------------------------------------------
(* The command line (src/cli.py): `agent list`, `agent create` and         *)
(* `agent execute`.  Every invocation is a process of its own that builds  *)
(* a new AgentManager; last.via names the command that is running and      *)
(* last.op the call it made last.                                          *)

\* str.split('_')[0]: the text before the first underscore
SplitHead(s) ==
    IF ~Contains(s, "_") THEN s
    ELSE LET i == CHOOSE x \in 1..Len(s) :
                      /\ SubSeq(s, x, x) = "_"
                      /\ \A y \in 1..(x - 1) : SubSeq(s, y, y) # "_"
         IN  SubSeq(s, 1, i - 1)

\* the type taken as the text before the last underscore (rsplit('_', 1)[0])
cli_agent_type_rsplit(id) ==
    IF ~Contains(id, "_") THEN id
    ELSE LET i == CHOOSE x \in 1..Len(id) :
                      /\ SubSeq(id, x, x) = "_"
                      /\ \A y \in (x + 1)..Len(id) : SubSeq(id, y, y) # "_"
         IN  SubSeq(id, 1, i - 1)

\* args.id.split('_')[0] if '_' in args.id else args.id
\* the whole id taken as the type, underscores included
cli_agent_type_whole_id(id) == id

cli_agent_type(id) == IF Contains(id, "_") THEN SplitHead(id) ELSE id

\* the values of --id, --type and --input; None when the option is not given
CliIds ==
    {None, Some("documentation"), Some("documentation_1"), Some("code_review"),
     Some("issue_triage"), Some("issue_triage_2"), Some("a1"), Some("_x"),
     Some("documentations")}
CliTypes == {None, Some("documentation"), Some("code_review"), Some("custom")}
CliInputs == {None, Some("x = 1")}

\* manager = AgentManager() of a new process
NewProcess ==
    [Blank EXCEPT !.pre_agents = <<>>, !.pre_types = BuiltinTypes]

Running(command) == last.via = command

\* agent list
cli_agent_list ==
    /\ Idle
    /\ last' = [Blank EXCEPT !.via = "cli_list", !.op = "list_agents",
                   !.types = get_available_agent_types,
                   !.listing = list_agents]
    /\ UNCHANGED <<agents, agent_types, next_uid>>
    /\ Config
    /\ UNCHANGED requests

\* agent create --type T [--id I]
cli_agent_create(type, id) ==
    /\ Idle
    /\ IF ~TruthyStr(type)
       THEN /\ last' = [Blank EXCEPT !.via = "cli_create", !.op = "usage",
                           !.agent_type = type, !.agent_id = id,
                           !.err = "type_required"]
            /\ UNCHANGED <<agents, next_uid>>
       ELSE LET r == create_agent(type[1], id, None, None)
            IN  /\ agents' = r.agents
                /\ next_uid' = r.next_uid
                /\ last' = [Blank EXCEPT !.via = "cli_create", !.op = "create_agent",
                               !.agent_type = type, !.agent_id = id,
                               !.err = r.err, !.key = r.key, !.ret_uid = r.ret_uid]
    /\ UNCHANGED agent_types
    /\ Config
    /\ UNCHANGED requests

\* agent execute --id I --input U [--repo R --issue N --pr N], up to the
\* test `if not manager.get_agent(args.id)`
cli_agent_execute(id, input, context) ==
    /\ Idle
    /\ IF ~TruthyStr(id) \/ ~TruthyStr(input)
       THEN last' = [Blank EXCEPT !.via = "cli_execute", !.op = "usage",
                        !.agent_id = id, !.context = context,
                        !.err = "id_and_input_required"]
       ELSE last' = [Blank EXCEPT !.via = "cli_execute", !.op = "get_agent",
                        !.agent_id = id, !.key = id[1], !.context = context,
                        !.user_input = input[1],
                        !.ret_uid = get_agent(id[1])]
    /\ UNCHANGED <<agents, agent_types, next_uid>>
    /\ Config
    /\ UNCHANGED requests

\* agent execute: manager.create_agent(agent_type, args.id), made when
\* get_agent found no agent
cli_auto_create ==
    /\ Running("cli_execute") /\ last.op = "get_agent" /\ last.ret_uid = 0
    /\ LET agent_type == cli_agent_type(last.key)
           r == create_agent(agent_type, last.agent_id, None, None)
       IN  /\ agents' = r.agents
           /\ next_uid' = r.next_uid
           /\ last' = [Blank EXCEPT !.via = "cli_execute", !.op = "create_agent",
                          !.agent_type = Some(agent_type),
                          !.agent_id = last.agent_id, !.key = last.key,
                          !.context = last.context, !.user_input = last.user_input,
                          !.err = r.err, !.ret_uid = r.ret_uid]
    /\ UNCHANGED agent_types
    /\ Config
    /\ UNCHANGED requests

\* agent execute: manager.execute_agent(args.id, context, args.input)
cli_execute_agent ==
    /\ Running("cli_execute")
    /\ \/ last.op = "get_agent" /\ last.ret_uid # 0
       \/ last.op = "create_agent" /\ last.err = ""
    /\ \E gh \in AnswersFor(last.key, last.context, last.user_input) :
       \E reply \in RepliesFor(last.key, last.context, last.user_input, gh) :
        LET r == execute_agent(last.key, last.context, last.user_input, gh, reply)
        IN  /\ agents' = r.agents
            /\ last' = [Blank EXCEPT !.via = "cli_execute", !.op = "execute_agent",
                           !.agent_id = last.agent_id, !.key = last.key,
                           !.context = last.context, !.user_input = last.user_input,
                           !.gh = gh, !.reply = reply,
                           !.err = r.err, !.response = r.response,
                           !.model_calls = r.model_calls,
                           !.github_calls = r.github_calls]
    /\ UNCHANGED <<agent_types, next_uid>>
    /\ Config
    /\ UNCHANGED requests

\* The process ends: the command returned or an exception left main.  The
\* next invocation starts with a new AgentManager.
cli_exit ==
    /\ \/ Running("cli_list")
       \/ Running("cli_create")
       \/ Running("cli_execute") /\ last.op \in {"usage", "execute_agent"}
       \/ Running("cli_execute") /\ last.op = "create_agent" /\ last.err # ""
    /\ agents' = <<>>
    /\ next_uid' = 1
    /\ last' = NewProcess
    /\ UNCHANGED agent_types
    /\ Config
    /\ UNCHANGED requests

CliNext ==
    \/ cli_agent_list
    \/ \E t \in CliTypes, i \in CliIds : cli_agent_create(t, i)
    \/ \E i \in CliIds, u \in CliInputs, c \in Contexts : cli_agent_execute(i, u, c)
    \/ cli_auto_create
    \/ cli_execute_agent
    \/ cli_exit

SpecCli == Init /\ [][CliNext]_vars

-----------------------------------------------------------------------------
(* Properties.  They read the record of the last call: its arguments, its  *)
(* outcome and the registry before it (pre_agents, pre_types).             *)

Executed == last.op = "execute_agent"
Created == last.op = "create_agent"
Removed == last.op = "remove_agent"
WasRegistered(k) == k \in DOMAIN last.pre_agents
HistoryBefore(k) == last.pre_agents[k].conversation_history
HistoryAfter(k) == agents[k].conversation_history
\* the prompt a Model Adapter call carries
PromptSent(call) ==
    IF call.fn = "generate" THEN call.prompt
    ELSE call.messages[Len(call.messages)].content
ModelSucceeded == last.model_calls # <<>> /\ last.reply # None

\* C1: after an execute whose model call succeeds the agent's history is the
\* previous history followed by the user entry holding the prompt sent and
\* the assistant entry holding the reply; after an execute that fails (the
\* lookup or the model call) the history is what it was.
C1_HistoryGrowsByExchange ==
    (Executed /\ WasRegistered(last.key)) =>
        IF ModelSucceeded
        THEN /\ Len(last.model_calls) = 1
             /\ HistoryAfter(last.key) =
                    HistoryBefore(last.key) \o
                    <<[role |-> "user", content |-> PromptSent(last.model_calls[1])],
                      [role |-> "assistant", content |-> last.reply[1]]>>
        ELSE /\ last.err # ""
             /\ HistoryAfter(last.key) = HistoryBefore(last.key)

C1_Witness ==
    /\ Executed /\ WasRegistered(last.key) /\ ModelSucceeded
    /\ HistoryBefore(last.key) # <<>>

\* C2: execute_agent on an id that is no key of the registry fails with the
\* not-found error, calls neither the Model Adapter nor the Repository
\* Client, and leaves the registry and every history as they were.
C2_ExecuteUnknownId ==
    (Executed /\ ~WasRegistered(last.key)) =>
        /\ last.err = "not_found"
        /\ last.model_calls = <<>>
        /\ last.github_calls = <<>>
        /\ agents = last.pre_agents
        /\ agent_types = last.pre_types

C2_Witness ==
    /\ Executed /\ ~WasRegistered(last.key)
    /\ TruthyStr(last.context.repository) /\ TruthyInt(last.context.pr_number)
    /\ \E k \in DOMAIN agents : agents[k].conversation_history # <<>>

-----------------------------------------------------------------------------
(* The registry: create_agent, remove_agent, ownership (SpecRegistry)      *)

TypeAsked == last.agent_type[1]
\* the collaborators create_agent does not pass in can be built
CanConstruct ==
    /\ last.ai_model # None \/ ANTHROPIC_API_KEY # ""
    /\ last.github_client # None \/ GITHUB_TOKEN # ""
UidsOf(reg) == {reg[k].uid : k \in DOMAIN reg}
OthersKept(k) ==
    \A x \in (DOMAIN agents \cup DOMAIN last.pre_agents) \ {k} :
        /\ x \in DOMAIN agents /\ x \in DOMAIN last.pre_agents
        /\ agents[x] = last.pre_agents[x]

\* C3: create_agent(t) for a registered type t, without an id, succeeds when
\* the agent can be constructed and stores a new instance under the key t:
\* get_agent(t) then returns the instance just created, also when another
\* one was stored under t before, t is a key of the registry exactly once
\* (the keys are the previous ones and t) and the other entries are untouched.
C3_ImplicitIdIsTypeName ==
    (Created /\ last.agent_id = None /\ TypeAsked \in DOMAIN last.pre_types) =>
        /\ CanConstruct => last.err = ""
        /\ last.err = "" =>
              /\ last.key = TypeAsked
              /\ get_agent(TypeAsked) = last.ret_uid
              /\ last.ret_uid \notin UidsOf(last.pre_agents)
              /\ DOMAIN agents = DOMAIN last.pre_agents \cup {TypeAsked}
              /\ OthersKept(TypeAsked)

C3_Witness ==
    /\ Created /\ last.agent_id = None /\ last.err = ""
    /\ WasRegistered(TypeAsked)
    /\ last.pre_agents[TypeAsked].uid # get_agent(TypeAsked)

\* C4: create_agent with a type name that is not in the type table fails
\* with the unknown-type error, returns no agent, and leaves the registry
\* and the type table as they were, with or without an explicit id.
C4_UnknownTypeChangesNothing ==
    (Created /\ TypeAsked \notin DOMAIN last.pre_types) =>
        /\ last.err = "unknown_type"
        /\ last.ret_uid = 0
        /\ agents = last.pre_agents
        /\ agent_types = last.pre_types

C4_Witness ==
    /\ Created /\ TypeAsked \notin DOMAIN last.pre_types
    /\ TruthyStr(last.agent_id) /\ WasRegistered(last.agent_id[1])

\* C5: remove_agent(id) returns true exactly when id is registered at the
\* call; afterwards id is not registered and the other entries are as they
\* were; and an id that is not registered becomes registered only by a
\* create_agent that succeeds and stores under it.  So the first removal of
\* a registered id returns true and every later one returns false and
\* changes nothing until a create_agent stores the id again.
C5_RemoveTrueOnce ==
    /\ Removed =>
          /\ last.ret_bool <=> WasRegistered(last.key)
          /\ last.key \notin DOMAIN agents
          /\ OthersKept(last.key)
          /\ ~last.ret_bool => agents = last.pre_agents
    /\ \A k \in DOMAIN agents \ DOMAIN last.pre_agents :
          Created /\ last.err = "" /\ last.key = k

C5_Witness ==
    /\ Removed /\ last.ret_bool
    /\ Cardinality(DOMAIN last.pre_agents) = 2

\* C6: create_agent without a model override when no API key is configured,
\* or without a repository-client override when no token is configured,
\* fails (with the configuration error when the type is known), returns no
\* agent and leaves the registry as it was, an agent stored under the
\* requested id included.
C6_MissingConfigRegistersNothing ==
    (Created /\ ~CanConstruct) =>
        /\ last.err # ""
        /\ TypeAsked \in DOMAIN last.pre_types => last.err = "config"
        /\ last.ret_uid = 0
        /\ agents = last.pre_agents

C6_Witness ==
    /\ Created /\ ~CanConstruct /\ TypeAsked \in DOMAIN last.pre_types
    /\ last.ai_model # None /\ GITHUB_TOKEN = ""
    /\ TruthyStr(last.agent_id) /\ WasRegistered(last.agent_id[1])

\* the keys whose stored instance left the registry in the last call
Left == {k \in DOMAIN last.pre_agents :
            last.pre_agents[k].uid \notin UidsOf(agents)}
OneEntryEach ==
    /\ \A k1, k2 \in DOMAIN agents : agents[k1].uid = agents[k2].uid => k1 = k2
    /\ \A k \in DOMAIN last.pre_agents : \A x \in DOMAIN agents :
          agents[x].uid = last.pre_agents[k].uid => x = k

\* C7 as stated: every stored instance is held by exactly one entry, and an
\* instance leaves the registry only by a remove_agent on its id.
C7_OnlyRemoveDestroys ==
    /\ OneEntryEach
    /\ \A k \in Left : Removed /\ last.key = k /\ last.ret_bool

\* C7: every stored instance is held by exactly one entry, under the id it
\* was stored with, and an instance leaves the registry only by a
\* remove_agent on its id or by a create_agent that succeeds and stores a
\* new instance under its id.
C7_RemoveOrReplaceDestroys ==
    /\ OneEntryEach
    /\ \A k \in Left :
          \/ Removed /\ last.key = k /\ last.ret_bool
          \/ Created /\ last.key = k /\ last.err = "" /\ get_agent(k) = last.ret_uid

C7_Witness ==
    /\ Created /\ last.err = "" /\ last.key \in Left
    /\ last.agent_id = Some("a1")

-----------------------------------------------------------------------------
(* The HTTP routes (SpecServer)                                            *)

IdRoutes == {"get_agent", "remove_agent", "execute_agent", "clear_conversation"}

\* C8 as stated: a route addressed to an agent id answers 404 with an error
\* payload when no agent is registered under the id, and answers 500 only
\* for a failure of another kind.
C8_MissingAgentAnswers404 ==
    (last.via = "http" /\ last.op \in IdRoutes) =>
        /\ ~WasRegistered(last.key) => last.status = 404 /\ last.payload = "error"
        /\ last.status = 500 => WasRegistered(last.key) /\ last.err # ""

-----------------------------------------------------------------------------
(* The prompts of the agents (Spec)                                        *)

ExecutedBy(cls) ==
    Executed /\ WasRegistered(last.key) /\ last.pre_agents[last.key].cls = cls

\* C9: the Code Review agent, given a repository and a PR number, asks the
\* Repository Client for the repository and then the pull request; when both
\* are found it calls the model once, with a prompt that contains the PR's
\* title, "Files changed: <changed_files>", "Additions: +<additions>",
\* "Deletions: -<deletions>", the caller's input, the body when it is not
\* empty and "No description provided" when it is absent or empty; when a
\* lookup fails the model is not called.
C9_ReviewPromptCarriesPR ==
    (/\ ExecutedBy("CodeReviewAgent")
     /\ TruthyStr(last.context.repository)
     /\ TruthyInt(last.context.pr_number)) =>
        LET repo == last.context.repository[1]
            number == last.context.pr_number[1]
        IN  IF last.gh.repo_found /\ last.gh.pull # None
            THEN LET pr == last.gh.pull[1]
                     prompt == last.model_calls[1].prompt
                 IN  /\ last.github_calls = <<GithubCall("get_repository", repo, 0),
                                               GithubCall("get_pull", repo, number)>>
                     /\ Len(last.model_calls) = 1
                     /\ last.model_calls[1].fn = "generate"
                     /\ Contains(prompt, pr.title)
                     /\ Contains(prompt, "Files changed: " \o ToString(pr.changed_files))
                     /\ Contains(prompt, "Additions: +" \o ToString(pr.additions))
                     /\ Contains(prompt, "Deletions: -" \o ToString(pr.deletions))
                     /\ Contains(prompt, last.user_input)
                     /\ IF TruthyStr(pr.body)
                        THEN Contains(prompt, pr.body[1])
                        ELSE Contains(prompt, "No description provided")
            ELSE /\ last.model_calls = <<>>
                 /\ last.err = "github"

C9_Witness ==
    /\ ExecutedBy("CodeReviewAgent")
    /\ last.context = Context(Some("o/r"), None, Some(7))
    /\ last.gh.repo_found /\ last.gh.pull = Some(PullRequest(None))
    /\ last.err = ""

\* C10: the Issue Triage agent, given a context without an issue number
\* (whatever its repository and PR number) or without a repository, makes
\* no Repository Client call and calls the model once with exactly
\* "Triage this issue:\n\n" followed by the input.
C10_TriageFallbackPrompt ==
    (/\ ExecutedBy("IssueTriageAgent")
     /\ last.context.issue_number = None \/ last.context.repository = None) =>
        /\ last.github_calls = <<>>
        /\ Len(last.model_calls) = 1
        /\ last.model_calls[1].fn = "generate"
        /\ last.model_calls[1].prompt = "Triage this issue:\n\n" \o last.user_input

C10_Witness ==
    /\ ExecutedBy("IssueTriageAgent")
    /\ last.context = Context(Some("o/r"), None, Some(7))
    /\ last.err = ""

-----------------------------------------------------------------------------
(* The prompts built from a fetched record (Spec)                          *)

\* the record execute fetched and rendered: the pull request for the Code
\* Review agent, the issue for the Issue Triage agent
FetchedBy(cls) ==
    /\ ExecutedBy(cls)
    /\ TruthyStr(last.context.repository)
    /\ last.gh.repo_found
    /\ IF cls = "CodeReviewAgent"
       THEN TruthyInt(last.context.pr_number) /\ last.gh.pull # None
       ELSE TruthyInt(last.context.issue_number) /\ last.gh.issue # None

\* C11 as stated: for the Code Review and the Issue Triage agent, when the
\* context supplies the identifiers and the record is fetched, the prompt
\* sent to the model contains the record's title and the caller's user_input.
C11_EnrichedPromptEmbedsInput ==
    \A cls \in {"CodeReviewAgent", "IssueTriageAgent"} :
        FetchedBy(cls) =>
            LET record == IF cls = "CodeReviewAgent" THEN last.gh.pull[1]
                          ELSE last.gh.issue[1]
                prompt == last.model_calls[1].prompt
            IN  /\ Len(last.model_calls) = 1
                /\ Contains(prompt, record.title)
                /\ Contains(prompt, last.user_input)

-----------------------------------------------------------------------------
(* The type table (SpecRegistry)                                           *)

Registered == last.op = "register_agent_type"

\* C12: register_agent_type(name, constructor) puts name in
\* get_available_agent_types() bound to that constructor, whether or not the
\* name was in the table, and changes no other type and no agent; the type
\* table changes in no other call; and a create_agent(name) that can
\* construct the agent returns and registers an instance of the constructor
\* the table holds for name, leaving the other agents as they were.
C12_RegisterThenCreate ==
    /\ Registered =>
          /\ TypeAsked \in get_available_agent_types
          /\ agent_types[TypeAsked] = last.agent_class
          /\ \A t \in (DOMAIN agent_types \cup DOMAIN last.pre_types) \ {TypeAsked} :
                /\ t \in DOMAIN agent_types /\ t \in DOMAIN last.pre_types
                /\ agent_types[t] = last.pre_types[t]
          /\ agents = last.pre_agents
    /\ agent_types # last.pre_types => Registered
    /\ (Created /\ TypeAsked \in DOMAIN last.pre_types /\ CanConstruct) =>
          /\ last.err = ""
          /\ last.ret_uid # 0
          /\ get_agent(last.key) = last.ret_uid
          /\ agents[last.key].cls = agent_types[TypeAsked]
          /\ OthersKept(last.key)

C12_Witness ==
    /\ Created /\ last.err = "" /\ TypeAsked = "custom"
    /\ last.key = "a1" /\ agents["a1"].cls = "IssueTriageAgent"
    /\ WasRegistered("custom")
    /\ agents["custom"] = last.pre_agents["custom"]
    /\ agents["custom"].cls = "DocumentationAgent"

-----------------------------------------------------------------------------
(* Listings (SpecRegistry)                                                 *)

Listed == last.op = "list_agents"
BuiltinNames == {"code_review", "issue_triage", "documentation"}

\* C13: a manager in which no agent was constructed yet lists no agents;
\* list_agents() returns one {id, name, description} entry for every key of
\* the registry and no other entry, so it is empty exactly when the registry
\* is; and get_available_agent_types() always contains code_review,
\* issue_triage and documentation.
C13_ListingMatchesRegistry ==
    /\ next_uid = 1 => list_agents = <<>>
    /\ Listed =>
          /\ Len(last.listing) = Cardinality(DOMAIN agents)
          /\ \A i \in 1..Len(last.listing) :
                /\ last.listing[i].id \in DOMAIN agents
                /\ last.listing[i] = AgentEntry(agents, last.listing[i].id)
          /\ \A k \in DOMAIN agents :
                Cardinality({i \in 1..Len(last.listing) : last.listing[i].id = k}) = 1
          /\ last.listing = <<>> <=> DOMAIN agents = {}
    /\ BuiltinNames \subseteq get_available_agent_types
    /\ last.op = "get_available_agent_types" => BuiltinNames \subseteq last.types

C13_Witness ==
    /\ Listed /\ Len(last.listing) = 2
    /\ last.listing[1].name = last.listing[2].name
    /\ "custom" \in DOMAIN agent_types

-----------------------------------------------------------------------------
(* The command line (SpecCli)                                              *)

\* t is the part of id before its first underscore, the whole id when it
\* has none
TypePrefixOf(t, id) ==
    /\ ~Contains(t, "_")
    /\ \/ id = t
       \/ Len(id) > Len(t) /\ SubSeq(id, 1, Len(t) + 1) = t \o "_"

CliExecuteAt(op) == Running("cli_execute") /\ last.op = op
Configured == ANTHROPIC_API_KEY # "" /\ GITHUB_TOKEN # ""

\* C14 as stated: in a configured process, `agent execute --id I --input U`
\* with no agent under I creates an agent under I, of the type named by the
\* part of I before its first underscore, and executes only an agent that
\* is registered.
C14_AutoCreateThenExecute ==
    /\ (Configured /\ CliExecuteAt("create_agent")) =>
          /\ ~WasRegistered(last.key)
          /\ TypePrefixOf(TypeAsked, last.key)
          /\ last.err = ""
          /\ last.key \in DOMAIN agents
    /\ CliExecuteAt("execute_agent") => WasRegistered(last.key)

\* C14: in `agent execute --id I --input U`, create_agent is called exactly
\* when get_agent(I) found no agent, with I as the id and the part of I
\* before its first underscore as the type; execute_agent(I, ...) is called
\* only after get_agent found an agent or that create_agent returned one;
\* when create_agent fails nothing is registered and nothing is executed.
C14_AutoCreateBeforeExecute ==
    [][/\ CliExecuteAt("get_agent") =>
            IF last.ret_uid = 0
            THEN /\ last.key \notin DOMAIN agents
                 /\ last'.op = "create_agent" /\ last'.via = "cli_execute"
                 /\ last'.key = last.key
                 /\ TypePrefixOf(last'.agent_type[1], last.key)
                 /\ IF last'.err = ""
                    THEN /\ get_agent(last.key)' = last'.ret_uid
                         /\ last'.ret_uid # 0
                         /\ agents'[last.key].cls = agent_types[last'.agent_type[1]]
                    ELSE agents' = agents
            ELSE /\ last'.op = "execute_agent" /\ last'.key = last.key
                 /\ next_uid' = next_uid
                 /\ DOMAIN agents' = DOMAIN agents
       /\ CliExecuteAt("create_agent") =>
            IF last.err = ""
            THEN /\ last'.op = "execute_agent" /\ last'.key = last.key
                 /\ last.key \in DOMAIN agents
            ELSE last'.op = "" /\ agents' = <<>>
       /\ (last'.via = "cli_execute" /\ last'.op = "execute_agent") =>
            /\ Running("cli_execute") /\ last.key \in DOMAIN agents
            /\ \/ last.op = "get_agent" /\ last.ret_uid # 0
               \/ last.op = "create_agent" /\ last.err = ""
      ]_vars

C14_Witness ==
    /\ CliExecuteAt("execute_agent") /\ last.key = "documentation_1"
    /\ last.pre_agents[last.key].cls = "DocumentationAgent"
    /\ last.err = ""

-----------------------------------------------------------------------------
(* generate_response called directly (SpecAgent)                           *)

Generated == last.op = "generate_response"
UserMessage(prompt) == [role |-> "user", content |-> prompt]

\* C15 as stated: generate_response with history-use requested calls chat
\* with the whole history followed by the new prompt as the last user
\* message, and calls generate only when history-use is not requested.
C15_HistoryUseMeansChat ==
    Generated =>
        /\ Len(last.model_calls) = 1
        /\ IF last.use_history
           THEN /\ last.model_calls[1].fn = "chat"
                /\ last.model_calls[1].messages =
                       Append(HistoryBefore(last.key), UserMessage(last.user_input))
           ELSE last.model_calls[1].fn = "generate"

\* C15: generate_response with history-use requested and a non-empty
\* history calls chat once with the whole history followed by the new prompt
\* as the last user message; when history-use is not requested, or the
\* history is empty, it calls generate once with the prompt and the agent's
\* system prompt.
C15_ChatOnlyWithHistory ==
    Generated =>
        /\ Len(last.model_calls) = 1
        /\ IF last.use_history /\ HistoryBefore(last.key) # <<>>
           THEN last.model_calls[1] =
                    ChatCall(Append(HistoryBefore(last.key),
                                    UserMessage(last.user_input)))
           ELSE last.model_calls[1] =
                    GenerateCall(last.user_input,
                                 get_system_prompt(last.pre_agents[last.key].cls))

C15_Witness ==
    /\ Generated /\ last.use_history
    /\ Len(HistoryBefore(last.key)) = 2
    /\ last.model_calls[1].fn = "chat"
    /\ last.err = ""

-----------------------------------------------------------------------------
(* The model calls of execute (Spec)                                       *)

\* histories an agent can hold, to run the same execute against
OtherHistories ==
    {<<>>,
     <<[role |-> "user", content |-> "Review this code:\n\nx = 2"],
       [role |-> "assistant", content |-> "Looks fine"]>>}

\* the agent that was executed, holding history h instead of its own
WithHistory(h) == [last.pre_agents[last.key] EXCEPT !.conversation_history = h]

\* C16: an execute of a built-in variant calls the Model Adapter at most
\* once, through generate with the variant's system prompt and never
\* through chat; a failed call is not repeated and fails the execute; and
\* the same execute run by the agent holding any other history makes the
\* same Model Adapter and Repository Client calls.
C16_OneGenerateWhateverHistory ==
    (Executed /\ WasRegistered(last.key)) =>
        /\ Len(last.model_calls) <= 1
        /\ \A i \in 1..Len(last.model_calls) :
              /\ last.model_calls[i].fn = "generate"
              /\ last.model_calls[i].system_prompt =
                     get_system_prompt(last.pre_agents[last.key].cls)
        /\ (last.model_calls # <<>> /\ last.reply = None) => last.err = "model"
        /\ \A h \in OtherHistories :
              LET other == Agent_execute(WithHistory(h), last.context,
                                         last.user_input, last.gh, last.reply)
              IN  /\ other.model_calls = last.model_calls
                  /\ other.github_calls = last.github_calls
                  /\ other.response = last.response

C16_Witness ==
    /\ ExecutedBy("CodeReviewAgent")
    /\ Len(HistoryBefore(last.key)) = 2
    /\ Len(last.github_calls) = 2
    /\ Len(last.model_calls) = 1 /\ last.reply = None

-----------------------------------------------------------------------------
(* Failing lookups (Spec)                                                  *)

\* a lookup execute made raised: the repository or the record was not found
LookupFailed ==
    /\ last.github_calls # <<>>
    /\ \/ ~last.gh.repo_found
       \/ last.github_calls[Len(last.github_calls)].fn = "get_pull" /\ last.gh.pull = None
       \/ last.github_calls[Len(last.github_calls)].fn = "get_issue" /\ last.gh.issue = None

\* C17: when a Repository Client lookup fails in an execute of the Code
\* Review or the Issue Triage agent, the execute fails with that error, the
\* model is not called, and the registry, the agent's history included, is
\* as it was; an execute fails with a lookup error in no other case; and an
\* execute of the Documentation agent calls the Repository Client for no
\* context.
C17_LookupFailurePropagates ==
    (Executed /\ WasRegistered(last.key)) =>
        /\ LookupFailed =>
              /\ last.pre_agents[last.key].cls \in {"CodeReviewAgent", "IssueTriageAgent"}
              /\ last.err = "github"
              /\ last.response = ""
              /\ last.model_calls = <<>>
              /\ agents = last.pre_agents
        /\ last.err = "github" => LookupFailed
        /\ ExecutedBy("DocumentationAgent") => last.github_calls = <<>>

C17_Witness ==
    /\ ExecutedBy("IssueTriageAgent") /\ LookupFailed
    /\ Len(last.github_calls) = 2
    /\ HistoryBefore(last.key) # <<>>

-----------------------------------------------------------------------------
(* Concurrent executes (SpecThreads)                                       *)

\* h is a sequence of exchanges: a user entry, then an assistant entry
PairsOnly(h) ==
    /\ Len(h) % 2 = 0
    /\ \A i \in 1..Len(h) :
          h[i].role = IF i % 2 = 1 THEN "user" ELSE "assistant"

\* C18 as stated: whenever no request thread is between its two appends,
\* the history of every agent consists of exchanges, each execute's user
\* entry directly followed by its assistant entry.
C18_ExchangesStayAdjacent ==
    (\A t \in Threads : requests[t].pc # "append_assistant") =>
        \A k \in DOMAIN agents : PairsOnly(agents[k].conversation_history)

-----------------------------------------------------------------------------
(* Histories (Spec)                                                        *)

Cleared == last.op = "clear_conversation"

\* C19: an execute or a clear_conversation of the agent under one id leaves
\* the agents under the other ids, their histories included, as they were,
\* and clear_conversation empties the history of its own agent; an agent
\* that create_agent stores has an empty history, also when it replaces an
\* agent whose history was not empty.
C19_HistoryIsPrivate ==
    /\ (Executed \/ Cleared) =>
          /\ DOMAIN agents = DOMAIN last.pre_agents
          /\ OthersKept(last.key)
    /\ Cleared => HistoryAfter(last.key) = <<>>
    /\ (Created /\ last.err = "") =>
          /\ HistoryAfter(last.key) = <<>>
          /\ OthersKept(last.key)

C19_Witness ==
    /\ Created /\ last.err = ""
    /\ WasRegistered(last.key) /\ Len(HistoryBefore(last.key)) = 4

-----------------------------------------------------------------------------
(* The shape of a history under sequential use (SpecAgent)                 *)

\* C20: when the calls on an agent are made one after another (execute,
\* generate_response, clear_conversation), its history always has even
\* length and alternates user and assistant entries, starting with a user
\* entry and ending with an assistant entry; it is empty right after
\* clear_conversation; and every message list sent to chat is the history
\* followed by the new prompt, so it ends with a user message.
C20_HistoryAlternates ==
    /\ \A k \in DOMAIN agents : PairsOnly(agents[k].conversation_history)
    /\ Cleared => HistoryAfter(last.key) = <<>>
    /\ \A i \in 1..Len(last.model_calls) :
          last.model_calls[i].fn = "chat" =>
              LET messages == last.model_calls[i].messages
              IN  /\ messages # <<>>
                  /\ messages[Len(messages)].role = "user"
                  /\ PairsOnly(SubSeq(messages, 1, Len(messages) - 1))

C20_Witness ==
    /\ Generated /\ last.err = ""
    /\ last.model_calls[1].fn = "chat"
    /\ Len(last.model_calls[1].messages) = 3
    /\ Len(HistoryAfter(last.key)) = 4

-----------------------------------------------------------------------------
(* Which ids the command line can execute (SpecCli)                        *)

\* id is 'documentation' or starts with 'documentation_'
DocumentationId(id) ==
    \/ id = "documentation"
    \/ Len(id) > 14 /\ SubSeq(id, 1, 14) = "documentation_"

\* C21: the command line process holds the three built-in types only.  In
\* `agent execute`, an agent is executed and the model called only when
\* --id is 'documentation' or starts with 'documentation_'; for every other
\* id the type derived has no underscore and is not registered, and
\* create_agent fails with the unknown-type error, registering nothing, and
\* execute_agent is not reached.
C21_OnlyDocumentationRuns ==
    /\ agent_types = BuiltinTypes
    /\ CliExecuteAt("get_agent") => last.ret_uid = 0
    /\ CliExecuteAt("execute_agent") =>
          /\ DocumentationId(last.key)
          /\ last.pre_agents[last.key].cls = "DocumentationAgent"
    /\ (Running("cli_execute") /\ last.model_calls # <<>>) =>
          CliExecuteAt("execute_agent") /\ DocumentationId(last.key)
    /\ (CliExecuteAt("create_agent") /\ ~DocumentationId(last.key)) =>
          /\ ~Contains(TypeAsked, "_")
          /\ TypeAsked \notin DOMAIN agent_types
          /\ last.err = "unknown_type"
          /\ last.ret_uid = 0
          /\ agents = <<>>

C21_Witness ==
    /\ CliExecuteAt("create_agent") /\ last.key = "code_review"
    /\ Configured
    /\ last.err = "unknown_type"

====
